---------------------------- MODULE Spec2Model ----------------------------
(***************************************************************************)
(* Model of the Ubuntu Image Fetcher (src/main.py): the header validator,  *)
(* the duplicate detector, the filename resolver, the fetcher              *)
(* download_image with its except chain, and the driver loop of main.      *)
(*                                                                         *)
(* Python strings are sequences of one-character strings, so that lower(), *)
(* startswith(), the `in` substring test and the f-strings are computed    *)
(* and not assumed.  A character outside printable ASCII is written by its *)
(* code point ("u2717" is the ballot X, "u000A" the line feed).  Bytes are *)
(* sequences of numbers.                                                   *)
(***************************************************************************)
EXTENDS Integers, Sequences, FiniteSets, TLC

(***************************************************************************)
(* String literals of the source and of the exceptions it formats.         *)
(***************************************************************************)
\* image/
S_image_prefix ==
    <<"i", "m", "a", "g", "e", "/">>

\* duplicate
S_duplicate ==
    <<"d", "u", "p", "l", "i", "c", "a", "t", "e">>

\* Fetched_Images
S_default_dir ==
    <<"F", "e", "t", "c", "h", "e", "d", "_", "I", "m", "a", "g", "e", "s">>

\* /
S_slash ==
    <<"/">>

\* .
S_dot ==
    <<".">>

\* Valid image headers
S_valid_headers ==
    <<"V", "a", "l", "i", "d", " ", "i", "m", "a", "g", "e", " ", "h", "e", "a", "d", "e", "r",
    "s">>

\* Content-Type '
S_ct_open ==
    <<"C", "o", "n", "t", "e", "n", "t", "-", "T", "y", "p", "e", " ", "'">>

\* ' is not an image
S_ct_close ==
    <<"'", " ", "i", "s", " ", "n", "o", "t", " ", "a", "n", " ", "i", "m", "a", "g", "e">>

\* File size (
S_size_open ==
    <<"F", "i", "l", "e", " ", "s", "i", "z", "e", " ", "(">>

\* MB) exceeds safety limit of 50MB
S_size_close ==
    <<"M", "B", ")", " ", "e", "x", "c", "e", "e", "d", "s", " ", "s", "a", "f", "e", "t", "y",
    " ", "l", "i", "m", "i", "t", " ", "o", "f", " ", "5", "0", "M", "B">>

\* \u2717 Validation failed: 
S_validation ==
    <<"u2717", " ", "V", "a", "l", "i", "d", "a", "t", "i", "o", "n", " ", "f", "a", "i", "l",
    "e", "d", ":", " ">>

\* \u26a0 Image already exists as: 
S_dup_open ==
    <<"u26A0", " ", "I", "m", "a", "g", "e", " ", "a", "l", "r", "e", "a", "d", "y", " ", "e",
    "x", "i", "s", "t", "s", " ", "a", "s", ":", " ">>

\*  (duplicate skipped)
S_dup_close ==
    <<" ", "(", "d", "u", "p", "l", "i", "c", "a", "t", "e", " ", "s", "k", "i", "p", "p", "e",
    "d", ")">>

\* \u2713 Successfully fetched: 
S_ok_open ==
    <<"u2713", " ", "S", "u", "c", "c", "e", "s", "s", "f", "u", "l", "l", "y", " ", "f", "e",
    "t", "c", "h", "e", "d", ":", " ">>

\*  (
S_ok_paren ==
    <<" ", "(">>

\*  KB)\n\u2713 Image saved to 
S_ok_saved ==
    <<" ", "K", "B", ")", "u000A", "u2713", " ", "I", "m", "a", "g", "e", " ", "s", "a", "v",
    "e", "d", " ", "t", "o", " ">>

\* \u2717 Connection timeout: Server took too long to respond
S_timeout ==
    <<"u2717", " ", "C", "o", "n", "n", "e", "c", "t", "i", "o", "n", " ", "t", "i", "m", "e",
    "o", "u", "t", ":", " ", "S", "e", "r", "v", "e", "r", " ", "t", "o", "o", "k", " ", "t",
    "o", "o", " ", "l", "o", "n", "g", " ", "t", "o", " ", "r", "e", "s", "p", "o", "n", "d">>

\* \u2717 HTTP error: 
S_http ==
    <<"u2717", " ", "H", "T", "T", "P", " ", "e", "r", "r", "o", "r", ":", " ">>

\*  - 
S_dash ==
    <<" ", "-", " ">>

\* \u2717 Connection error: Could not reach the server
S_connection ==
    <<"u2717", " ", "C", "o", "n", "n", "e", "c", "t", "i", "o", "n", " ", "e", "r", "r", "o",
    "r", ":", " ", "C", "o", "u", "l", "d", " ", "n", "o", "t", " ", "r", "e", "a", "c", "h",
    " ", "t", "h", "e", " ", "s", "e", "r", "v", "e", "r">>

\* \u2717 Request error: 
S_request ==
    <<"u2717", " ", "R", "e", "q", "u", "e", "s", "t", " ", "e", "r", "r", "o", "r", ":", " ">>

\* \u2717 File error: Could not save image - 
S_file ==
    <<"u2717", " ", "F", "i", "l", "e", " ", "e", "r", "r", "o", "r", ":", " ", "C", "o", "u",
    "l", "d", " ", "n", "o", "t", " ", "s", "a", "v", "e", " ", "i", "m", "a", "g", "e", " ",
    "-", " ">>

\* \u2717 Unexpected error: 
S_unexpected ==
    <<"u2717", " ", "U", "n", "e", "x", "p", "e", "c", "t", "e", "d", " ", "e", "r", "r", "o",
    "r", ":", " ">>

\* downloaded_image_
S_generated ==
    <<"d", "o", "w", "n", "l", "o", "a", "d", "e", "d", "_", "i", "m", "a", "g", "e", "_">>

\* .jpg
S_jpg ==
    <<".", "j", "p", "g">>

\* .png
S_png ==
    <<".", "p", "n", "g">>

\* .gif
S_gif ==
    <<".", "g", "i", "f">>

\* .webp
S_webp ==
    <<".", "w", "e", "b", "p">>

\* .svg
S_svg ==
    <<".", "s", "v", "g">>

\* .bmp
S_bmp ==
    <<".", "b", "m", "p">>

\* image/jpeg
S_image_jpeg ==
    <<"i", "m", "a", "g", "e", "/", "j", "p", "e", "g">>

\* image/png
S_image_png ==
    <<"i", "m", "a", "g", "e", "/", "p", "n", "g">>

\* image/gif
S_image_gif ==
    <<"i", "m", "a", "g", "e", "/", "g", "i", "f">>

\* image/webp
S_image_webp ==
    <<"i", "m", "a", "g", "e", "/", "w", "e", "b", "p">>

\* image/svg+xml
S_image_svg ==
    <<"i", "m", "a", "g", "e", "/", "s", "v", "g", "+", "x", "m", "l">>

\* image/bmp
S_image_bmp ==
    <<"i", "m", "a", "g", "e", "/", "b", "m", "p">>

\* ABCDEFGHIJKLMNOPQRSTUVWXYZ
S_upper ==
    <<"A", "B", "C", "D", "E", "F", "G", "H", "I", "J", "K", "L", "M", "N", "O", "P", "Q", "R",
    "S", "T", "U", "V", "W", "X", "Y", "Z">>

\* abcdefghijklmnopqrstuvwxyz
S_lower ==
    <<"a", "b", "c", "d", "e", "f", "g", "h", "i", "j", "k", "l", "m", "n", "o", "p", "q", "r",
    "s", "t", "u", "v", "w", "x", "y", "z">>

\* 0123456789
S_digits ==
    <<"0", "1", "2", "3", "4", "5", "6", "7", "8", "9">>

\* Invalid URL '
E_schema_open ==
    <<"I", "n", "v", "a", "l", "i", "d", " ", "U", "R", "L", " ", "'">>

\* ': No scheme supplied. Perhaps you meant https://
E_schema_mid ==
    <<"'", ":", " ", "N", "o", " ", "s", "c", "h", "e", "m", "e", " ", "s", "u", "p", "p", "l",
    "i", "e", "d", ".", " ", "P", "e", "r", "h", "a", "p", "s", " ", "y", "o", "u", " ", "m",
    "e", "a", "n", "t", " ", "h", "t", "t", "p", "s", ":", "/", "/">>

\* ?
E_schema_close ==
    <<"?">>

\* invalid literal for int() with base 10: '
E_int_open ==
    <<"i", "n", "v", "a", "l", "i", "d", " ", "l", "i", "t", "e", "r", "a", "l", " ", "f", "o",
    "r", " ", "i", "n", "t", "(", ")", " ", "w", "i", "t", "h", " ", "b", "a", "s", "e", " ",
    "1", "0", ":", " ", "'">>

\* '
E_int_close ==
    <<"'">>

\* integer division result too large for a float
E_overflow ==
    <<"i", "n", "t", "e", "g", "e", "r", " ", "d", "i", "v", "i", "s", "i", "o", "n", " ", "r",
    "e", "s", "u", "l", "t", " ", "t", "o", "o", " ", "l", "a", "r", "g", "e", " ", "f", "o",
    "r", " ", "a", " ", "f", "l", "o", "a", "t">>

\* [Errno 13] Permission denied: '
E_denied_open ==
    <<"[", "E", "r", "r", "n", "o", " ", "1", "3", "]", " ", "P", "e", "r", "m", "i", "s", "s",
    "i", "o", "n", " ", "d", "e", "n", "i", "e", "d", ":", " ", "'">>

\* '
E_denied_close ==
    <<"'">>

\* [Errno 28] No space left on device
E_nospace ==
    <<"[", "E", "r", "r", "n", "o", " ", "2", "8", "]", " ", "N", "o", " ", "s", "p", "a", "c",
    "e", " ", "l", "e", "f", "t", " ", "o", "n", " ", "d", "e", "v", "i", "c", "e">>

\* Exceeded 30 redirects.
E_redirects ==
    <<"E", "x", "c", "e", "e", "d", "e", "d", " ", "3", "0", " ", "r", "e", "d", "i", "r", "e",
    "c", "t", "s", ".">>

\* Connection broken: IncompleteRead
E_broken ==
    <<"C", "o", "n", "n", "e", "c", "t", "i", "o", "n", " ", "b", "r", "o", "k", "e", "n", ":",
    " ", "I", "n", "c", "o", "m", "p", "l", "e", "t", "e", "R", "e", "a", "d">>

\* [Errno 21] Is a directory: '
E_isdir_open ==
    <<"[", "E", "r", "r", "n", "o", " ", "2", "1", "]", " ", "I", "s", " ", "a", " ", "d", "i",
    "r", "e", "c", "t", "o", "r", "y", ":", " ", "'">>

\* (2^1024 - 2^970) * 2^20 in decimal: the least n for which n / (1024 * 1024)
\* is too large for a float (CPython raises OverflowError).
S_float_limit ==
    <<"1", "8", "8", "5", "0", "1", "7", "8", "7", "6", "5", "8", "1", "3", "8", "7", "6", "6",
    "0", "6", "2", "3", "6", "5", "1", "4", "9", "9", "2", "0", "2", "8", "7", "4", "3", "3",
    "7", "7", "0", "8", "5", "7", "0", "1", "3", "1", "4", "0", "5", "6", "0", "6", "2", "4",
    "4", "1", "7", "4", "2", "5", "3", "5", "6", "4", "6", "8", "1", "9", "9", "0", "6", "3",
    "0", "7", "2", "5", "5", "4", "0", "9", "1", "4", "8", "8", "6", "3", "3", "4", "4", "0",
    "6", "7", "4", "8", "6", "6", "4", "8", "3", "2", "6", "8", "2", "4", "1", "6", "2", "6",
    "4", "0", "9", "6", "7", "0", "1", "6", "1", "6", "3", "4", "1", "0", "8", "6", "9", "5",
    "4", "3", "0", "1", "4", "4", "3", "9", "6", "2", "5", "9", "6", "2", "8", "8", "4", "4",
    "3", "0", "6", "8", "4", "1", "2", "1", "2", "8", "8", "7", "4", "2", "7", "3", "5", "3",
    "3", "0", "8", "8", "2", "4", "2", "9", "4", "7", "9", "4", "1", "2", "1", "7", "3", "2",
    "5", "3", "3", "6", "1", "8", "8", "0", "8", "1", "5", "2", "6", "8", "7", "1", "3", "1",
    "4", "6", "6", "9", "0", "3", "3", "4", "3", "6", "6", "8", "7", "6", "8", "8", "7", "5",
    "6", "0", "1", "6", "8", "1", "0", "5", "3", "4", "8", "2", "1", "3", "2", "2", "5", "0",
    "1", "5", "0", "3", "9", "4", "8", "5", "4", "3", "4", "9", "5", "1", "6", "5", "3", "8",
    "1", "9", "5", "9", "1", "5", "2", "5", "0", "7", "1", "9", "0", "0", "9", "7", "5", "2",
    "3", "1", "6", "8", "6", "3", "1", "1", "6", "4", "2", "3", "4", "7", "1", "3", "9", "8",
    "1", "7", "0", "5", "3", "1", "1", "2", "5", "4", "2", "6", "0", "4", "7", "6", "7", "8",
    "1", "9", "6", "7", "4", "4", "1", "9", "2">>
(***************************************************************************)
(* Python values and string operations.                                    *)
(***************************************************************************)
\* Python's None: an absent header, no duplicate name.
None == <<"None">>

\* The lower-case letter of each upper-case one.
LowerTable ==
    [c \in {S_upper[k] : k \in 1..Len(S_upper)} |->
        S_lower[CHOOSE k \in 1..Len(S_upper) : S_upper[k] = c]]

LowerChar(c) == IF c \in DOMAIN LowerTable THEN LowerTable[c] ELSE c

\* str.lower()
Lower(s) == [k \in 1..Len(s) |-> LowerChar(s[k])]

\* str.startswith(p)
StartsWith(s, p) == Len(s) >= Len(p) /\ SubSeq(s, 1, Len(p)) = p

\* p in s
Contains(s, p) ==
    \E k \in 0..(Len(s) - Len(p)) : SubSeq(s, k + 1, k + Len(p)) = p

\* s.rfind(c) + 1: the position after the last c, 0 when there is none.
AfterLast(s, c) ==
    IF \E k \in 1..Len(s) : s[k] = c
    THEN CHOOSE k \in 1..Len(s) : s[k] = c /\ \A j \in (k + 1)..Len(s) : s[j] # c
    ELSE 0

IsDigit(c) == \E k \in 1..Len(S_digits) : S_digits[k] = c

DigitValue(c) == (CHOOSE k \in 1..Len(S_digits) : S_digits[k] = c) - 1

\* str(n) of an int
RECURSIVE Str(_)
Str(n) ==
    IF n < 0 THEN <<"-">> \o Str(0 - n)
    ELSE IF n < 10 THEN <<S_digits[n + 1]>>
    ELSE Str(n \div 10) \o <<S_digits[(n % 10) + 1]>>

(***************************************************************************)
(* Python ints of any size, as a sign and a decimal magnitude: a declared  *)
(* Content-Length is whatever number the server wrote.                     *)
(***************************************************************************)
RECURSIVE StripZeros(_)
StripZeros(d) == IF Len(d) > 1 /\ d[1] = "0" THEN StripZeros(Tail(d)) ELSE d

Unsigned(s) == IF Len(s) > 0 /\ s[1] \in {"+", "-"} THEN Tail(s) ELSE s

\* Whether int(s) returns: an optional sign, then ASCII digits.  (int() also
\* takes surrounding blanks and single underscores; the headers drawn here
\* hold neither.)  Otherwise int(s) raises ValueError.
IntParses(s) ==
    Len(Unsigned(s)) > 0 /\ \A k \in 1..Len(Unsigned(s)) : IsDigit(Unsigned(s)[k])

\* int(s)
IntOf(s) ==
    LET mag == StripZeros(Unsigned(s))
    IN  [neg |-> s[1] = "-" /\ mag # <<"0">>, mag |-> mag]

\* a < b for magnitudes without leading zeros
MagLess(a, b) ==
    \/ Len(a) < Len(b)
    \/ /\ Len(a) = Len(b)
       /\ \E k \in 1..Len(a) :
            /\ DigitValue(a[k]) < DigitValue(b[k])
            /\ \A j \in 1..(k - 1) : a[j] = b[j]

\* Long division of a magnitude by a small int m, with carry r.
RECURSIVE DivDigits(_, _, _)
DivDigits(d, m, r) ==
    IF d = <<>> THEN [q |-> <<>>, r |-> r]
    ELSE LET cur == 10 * r + DigitValue(Head(d))
             rest == DivDigits(Tail(d), m, cur % m)
         IN  [q |-> <<S_digits[(cur \div m) + 1]>> \o rest.q, r |-> rest.r]

\* magnitude + 1
RECURSIVE IncDigits(_)
IncDigits(d) ==
    IF d = <<>> THEN <<"1">>
    ELSE IF d[Len(d)] = "9" THEN IncDigits(SubSeq(d, 1, Len(d) - 1)) \o <<"0">>
    ELSE SubSeq(d, 1, Len(d) - 1) \o <<S_digits[DigitValue(d[Len(d)]) + 2]>>

\* f"{n / m:.1f}" for a magnitude n and an int m > 0: the quotient to one
\* decimal, ties to even.  (Exact while n / m is exact in a double; beyond
\* 2^53 Python prints the nearest double, which agrees in the leading digits.)
FormatTenths(mag, m) ==
    LET d == DivDigits(mag \o <<"0">>, m, 0)
        up == 2 * d.r > m \/ (2 * d.r = m /\ DigitValue(d.q[Len(d.q)]) % 2 = 1)
        t == IF up THEN IncDigits(d.q) ELSE d.q
    IN  StripZeros(SubSeq(t, 1, Len(t) - 1)) \o S_dot \o <<t[Len(t)]>>

(***************************************************************************)
(* Exceptions: the class raised, its str(), and for an HTTPError the       *)
(* response's status and reason.  Mro is the class's ancestry in the       *)
(* requests library and in Python (IOError is OSError).                    *)
(***************************************************************************)
Exc(cls, text) == [cls |-> cls, text |-> text, status |-> 0, reason |-> <<>>]

NoExc == Exc("none", <<>>)

Mro(cls) ==
    CASE cls = "ConnectTimeout" ->
            {"ConnectTimeout", "ConnectionError", "Timeout", "RequestException",
             "IOError", "Exception"}
      [] cls = "ReadTimeout" ->
            {"ReadTimeout", "Timeout", "RequestException", "IOError", "Exception"}
      [] cls = "HTTPError" -> {"HTTPError", "RequestException", "IOError", "Exception"}
      [] cls = "ConnectionError" ->
            {"ConnectionError", "RequestException", "IOError", "Exception"}
      [] cls = "ChunkedEncodingError" ->
            {"ChunkedEncodingError", "RequestException", "IOError", "Exception"}
      [] cls = "TooManyRedirects" ->
            {"TooManyRedirects", "RequestException", "IOError", "Exception"}
      [] cls = "MissingSchema" ->
            {"MissingSchema", "RequestException", "IOError", "ValueError", "Exception"}
      [] cls = "OSError" -> {"OSError", "IOError", "Exception"}
      [] cls = "ValueError" -> {"ValueError", "Exception"}
      [] cls = "OverflowError" -> {"OverflowError", "ArithmeticError", "Exception"}
      [] OTHER -> {cls}

(***************************************************************************)
(* validate_image_headers                                                  *)
(***************************************************************************)
\* 1024 * 1024
MegaByte == 1024 * 1024

\* the 50 of `size_mb > 50`
SizeLimitMB == 50

\* HeaderGet with a bug: an absent header reads as an image type.
HeaderGetAbsentAsImage(value, default) == IF value = None THEN S_image_prefix ELSE value

\* response.headers.get(name, default)
HeaderGet(value, default) == IF value = None THEN default ELSE value

\* int(content_length) / (1024 * 1024) raises OverflowError
TrueDivRaises(n) == ~MagLess(n.mag, S_float_limit)

\* size_mb > 50, for size_mb = n / (1024 * 1024)
ExceedsLimit(n) == ~n.neg /\ MagLess(Str(SizeLimitMB * MegaByte), n.mag)

\* f"{size_mb:.1f}"
SizeText(n) == (IF n.neg THEN <<"-">> ELSE <<>>) \o FormatTenths(n.mag, MegaByte)

\* Returns (is_valid, message), or raises.
ValidateImageHeaders(response) ==
    LET content_type == Lower(HeaderGet(response.content_type, <<>>))
        content_length == response.content_length
        verdict(v, m) == [raised |-> NoExc, valid |-> v, msg |-> m]
    IN  IF ~StartsWith(content_type, S_image_prefix)
        THEN verdict(FALSE, S_ct_open \o content_type \o S_ct_close)
        ELSE IF content_length # None /\ content_length # <<>>
        THEN IF ~IntParses(content_length)
             THEN [raised |-> Exc("ValueError", E_int_open \o content_length \o E_int_close),
                   valid |-> FALSE, msg |-> <<>>]
             ELSE IF TrueDivRaises(IntOf(content_length))
             THEN [raised |-> Exc("OverflowError", E_overflow),
                   valid |-> FALSE, msg |-> <<>>]
             ELSE IF ExceedsLimit(IntOf(content_length))
             THEN verdict(FALSE, S_size_open \o SizeText(IntOf(content_length)) \o S_size_close)
             ELSE verdict(TRUE, S_valid_headers)
        ELSE verdict(TRUE, S_valid_headers)

(***************************************************************************)
(* hashlib.sha256.  The digest is modelled by a positional code of the     *)
(* bytes fed, which like SHA-256 tells apart any two contents drawn here   *)
(* and, unlike the identity, has to be fed the same bytes to agree.        *)
(***************************************************************************)
S_hex == <<"0", "1", "2", "3", "4", "5", "6", "7", "8", "9", "a", "b", "c", "d", "e", "f">>

\* hashlib.sha256()
ShaInit == 0

\* sha256_hash.update(block)
RECURSIVE ShaUpdate(_, _)
ShaUpdate(h, block) ==
    IF block = <<>> THEN h
    ELSE ShaUpdate(h * (256 + 1) + Head(block) + 1, Tail(block))

\* .hexdigest()
RECURSIVE HexDigest(_)
HexDigest(h) ==
    IF h < 16 THEN <<S_hex[h + 1]>>
    ELSE HexDigest(h \div 16) \o <<S_hex[(h % 16) + 1]>>

\* the 4096 of f.read(4096)
BlockSize == 4096

\* the loop of get_file_hash over the blocks f.read(4096) returns, until b""
RECURSIVE HashBlocks(_, _)
HashBlocks(h, data) ==
    IF data = <<>> THEN h
    ELSE LET n == IF Len(data) < BlockSize THEN Len(data) ELSE BlockSize
         IN  HashBlocks(ShaUpdate(h, SubSeq(data, 1, n)), SubSeq(data, n + 1, Len(data)))

\* get_file_hash(filepath), for a file holding data
GetFileHash(data) == HexDigest(HashBlocks(ShaInit, data))

\* hashlib.sha256(content).hexdigest()
ContentHash(content) == HexDigest(ShaUpdate(ShaInit, content))

(***************************************************************************)
(* is_duplicate.  A directory is a function from its entries' names to     *)
(* [isfile, data]; listing is the order os.listdir returns them in (any    *)
(* order), unreadable the entries whose open() fails.                      *)
(***************************************************************************)
DupResult(raised, dup, name) == [raised |-> raised, dup |-> dup, name |-> name]

\* os.path.join(directory, filename)
PathJoin(directory, filename) == directory \o S_slash \o filename

\* ScanListing with a bug: the loop returns after the first entry.
ScanFirstEntryOnly(k, listing, files, content_hash, unreadable, directory) ==
    IF k > Len(listing) \/ ~files[listing[k]].isfile THEN DupResult(NoExc, FALSE, None)
    ELSE IF listing[k] \in unreadable
    THEN DupResult(Exc("OSError",
                       E_denied_open \o PathJoin(directory, listing[k]) \o E_denied_close),
                   FALSE, None)
    ELSE IF GetFileHash(files[listing[k]].data) = content_hash
    THEN DupResult(NoExc, TRUE, listing[k])
    ELSE DupResult(NoExc, FALSE, None)

\* the for loop of is_duplicate from position k of the listing
RECURSIVE ScanListing(_, _, _, _, _, _)
ScanListing(k, listing, files, content_hash, unreadable, directory) ==
    IF k > Len(listing) THEN DupResult(NoExc, FALSE, None)
    ELSE IF ~files[listing[k]].isfile
    THEN ScanListing(k + 1, listing, files, content_hash, unreadable, directory)
    ELSE IF listing[k] \in unreadable
    THEN DupResult(Exc("OSError",
                       E_denied_open \o PathJoin(directory, listing[k]) \o E_denied_close),
                   FALSE, None)
    ELSE IF GetFileHash(files[listing[k]].data) = content_hash
    THEN DupResult(NoExc, TRUE, listing[k])
    ELSE ScanListing(k + 1, listing, files, content_hash, unreadable, directory)

\* Returns (is_dup, filename), or raises what get_file_hash raises.
IsDuplicate(content, directory, exists, files, listing, unreadable) ==
    IF ~exists THEN DupResult(NoExc, FALSE, None)
    ELSE ScanListing(1, listing, files, ContentHash(content), unreadable, directory)

(***************************************************************************)
(* get_filename_from_url                                                   *)
(***************************************************************************)
IsAlpha(c) ==
    \E k \in 1..Len(S_upper) : S_upper[k] = c \/ S_lower[k] = c

IsSchemeChar(c) == IsAlpha(c) \/ IsDigit(c) \/ c \in {"+", "-", "."}

\* The least position from `from` on where a character of `stops` stands,
\* Len(s) + 1 when there is none.
FirstOf(s, stops, from) ==
    IF \E k \in from..Len(s) : s[k] \in stops
    THEN CHOOSE k \in from..Len(s) :
            s[k] \in stops /\ \A j \in from..(k - 1) : s[j] \notin stops
    ELSE Len(s) + 1

\* urlparse(url).path: the scheme, the //netloc, the #fragment, the ?query
\* and the ;params of the last segment taken off.
UrlPath(url) ==
    LET colon == FirstOf(url, {":"}, 1)
        scheme == /\ colon > 1
                  /\ colon <= Len(url)
                  /\ IsAlpha(url[1])
                  /\ \A k \in 1..(colon - 1) : IsSchemeChar(url[k])
        r1 == IF scheme THEN SubSeq(url, colon + 1, Len(url)) ELSE url
        r2 == IF StartsWith(r1, <<"/", "/">>)
              THEN SubSeq(r1, FirstOf(r1, {"/", "?", "#"}, 3), Len(r1))
              ELSE r1
        r3 == SubSeq(r2, 1, FirstOf(r2, {"#"}, 1) - 1)
        r4 == SubSeq(r3, 1, FirstOf(r3, {"?"}, 1) - 1)
    IN  SubSeq(r4, 1, FirstOf(r4, {";"}, AfterLast(r4, "/") + 1) - 1)

\* os.path.basename(path)
Basename(path) == SubSeq(path, AfterLast(path, "/") + 1, Len(path))

\* the 10000 of hash(url) % 10000
HashModulus == 10000

\* mime_to_ext.get(content_type.lower(), '.jpg')
MimeToExt(content_type) ==
    CASE content_type = S_image_jpeg -> S_jpg
      [] content_type = S_image_png -> S_png
      [] content_type = S_image_gif -> S_gif
      [] content_type = S_image_webp -> S_webp
      [] content_type = S_image_svg -> S_svg
      [] content_type = S_image_bmp -> S_bmp
      [] OTHER -> S_jpg

\* HashSuffix with a bug: a remainder that takes the sign of the hash.
HashSuffixTruncating(url_hash) ==
    IF url_hash < 0 THEN 0 - ((0 - url_hash) % HashModulus) ELSE url_hash % HashModulus

\* hash(url) % 10000: Python's remainder takes the sign of the modulus.
HashSuffix(url_hash) == url_hash % HashModulus

\* url_hash is hash(url), which Python draws per process.
GetFilenameFromUrl(url, content_type, url_hash) ==
    LET filename == Basename(UrlPath(url))
        extension == IF content_type # None /\ content_type # <<>>
                     THEN MimeToExt(Lower(content_type))
                     ELSE S_jpg
    IN  IF filename = <<>> \/ ~Contains(filename, S_dot)
        THEN S_generated \o Str(HashSuffix(url_hash)) \o extension
        ELSE filename

(***************************************************************************)
(* download_image.  What the world does during one call is an input:       *)
(*   response  the final response of the server: status, reason, the       *)
(*             Content-Type and Content-Length headers (None when absent)  *)
(*             and the body;                                               *)
(*   fault     the one thing that goes wrong, if any (the first exception  *)
(*             ends the call, so one is enough);                           *)
(*   listing   the order os.listdir returns the entries in;                *)
(*   url_hash  hash(url).                                                  *)
(***************************************************************************)
Fault(kind, arg) == [kind |-> kind, arg |-> arg]

NoFault == Fault("none", <<>>)

\* requests refuses a URL without a scheme before anything is sent.
HasScheme(url) ==
    LET colon == FirstOf(url, {":"}, 1)
    IN  /\ colon > 1
        /\ colon <= Len(url)
        /\ IsAlpha(url[1])
        /\ \A k \in 1..(colon - 1) : IsSchemeChar(url[k])

\* requests.get(url, timeout=10, headers=headers, stream=True): the exception
\* it raises, NoExc when it returns the response.
RequestsGet(url, fault) ==
    IF ~HasScheme(url)
    THEN Exc("MissingSchema", E_schema_open \o url \o E_schema_mid \o url \o E_schema_close)
    ELSE CASE fault.kind = "connect_timeout" -> Exc("ConnectTimeout", <<>>)
           [] fault.kind = "read_timeout" -> Exc("ReadTimeout", <<>>)
           [] fault.kind = "connection" -> Exc("ConnectionError", <<>>)
           [] fault.kind = "redirects" -> Exc("TooManyRedirects", E_redirects)
           [] OTHER -> NoExc

\* response.raise_for_status(): HTTPError for a 4xx or a 5xx status.
RaiseForStatus(response) ==
    IF 400 <= response.status /\ response.status < 600
    THEN [Exc("HTTPError", <<>>) EXCEPT !.status = response.status,
                                       !.reason = response.reason]
    ELSE NoExc

\* response.content of a streamed response: the body is read here.  A read
\* timeout while streaming is raised by requests as its ConnectionError, a
\* broken transfer as ChunkedEncodingError.
ReadContent(fault) ==
    CASE fault.kind = "body_timeout" -> Exc("ConnectionError", <<>>)
      [] fault.kind = "body_broken" -> Exc("ChunkedEncodingError", E_broken)
      [] OTHER -> NoExc

\* Handlers with a bug: no final `except Exception`.
HandlersWithoutCatchAll ==
    <<"Timeout", "HTTPError", "ConnectionError", "RequestException", "IOError">>

\* The except clauses of download_image, in their order.
Handlers ==
    <<"Timeout", "HTTPError", "ConnectionError", "RequestException", "IOError", "Exception">>

\* The first except clause that matches, "propagated" when none does.
HandlerOf(exc) ==
    IF \E k \in 1..Len(Handlers) : Handlers[k] \in Mro(exc.cls)
    THEN Handlers[CHOOSE k \in 1..Len(Handlers) :
                    /\ Handlers[k] \in Mro(exc.cls)
                    /\ \A j \in 1..(k - 1) : Handlers[j] \notin Mro(exc.cls)]
    ELSE "propagated"

\* The message each except clause returns.
HandlerMessage(handler, exc) ==
    CASE handler = "Timeout" -> S_timeout
      [] handler = "HTTPError" -> S_http \o Str(exc.status) \o S_dash \o exc.reason
      [] handler = "ConnectionError" -> S_connection
      [] handler = "RequestException" -> S_request \o exc.text
      [] handler = "IOError" -> S_file \o exc.text
      [] handler = "Exception" -> S_unexpected \o exc.text
      [] OTHER -> <<>>

\* the 1024 of len(content) / 1024
KiloByte == 1024

\* What a call returns and leaves behind: `ok, msg` is the pair returned, `via`
\* the return statement or except clause taken, `stage` the step the call
\* ended in, `gets` the number of calls of requests.get.
Outcome(ok, msg, via, stage, exc, exists, files, gets, filename) ==
    [ok |-> ok, msg |-> msg, via |-> via, stage |-> stage, exc |-> exc,
     exists |-> exists, files |-> files, gets |-> gets, filename |-> filename]

\* An exception raised inside the try block.
Raised(exc, stage, exists, files, gets) ==
    Outcome(FALSE, HandlerMessage(HandlerOf(exc), exc), HandlerOf(exc), stage, exc,
            exists, files, gets, None)

\* with open(filepath, 'wb') as f: f.write(content)
\* open() fails on a directory or when refused; otherwise it creates or empties
\* the file, and a write that fails leaves the bytes that got through.
WriteFile(url, content, filename, directory, fault, files) ==
    LET filepath == PathJoin(directory, filename)
        put(data) == [n \in DOMAIN files \cup {filename} |->
                        IF n = filename THEN [isfile |-> TRUE, data |-> data] ELSE files[n]]
    IN  IF filename \in DOMAIN files /\ ~files[filename].isfile
        THEN Raised(Exc("OSError", E_isdir_open \o filepath \o E_denied_close),
                    "open", TRUE, files, 1)
        ELSE IF fault.kind = "open_denied"
        THEN Raised(Exc("OSError", E_denied_open \o filepath \o E_denied_close),
                    "open", TRUE, files, 1)
        ELSE IF fault.kind = "no_space" /\ fault.arg < Len(content)
        THEN Raised(Exc("OSError", E_nospace), "write", TRUE,
                    put(SubSeq(content, 1, fault.arg)), 1)
        ELSE Outcome(TRUE,
                     S_ok_open \o filename \o S_ok_paren
                        \o FormatTenths(Str(Len(content)), KiloByte)
                        \o S_ok_saved \o filepath,
                     "saved", "done", NoExc, TRUE, put(content), 1, filename)

\* From the duplicate check on: lines 113 to 129.
CheckAndSave(url, directory, check_duplicates, response, fault, listing, url_hash, files) ==
    LET content == response.body
        scan == IsDuplicate(content, directory, TRUE, files, listing,
                            IF fault.kind = "unreadable" THEN {fault.arg} ELSE {})
    IN  IF check_duplicates /\ scan.raised # NoExc
        THEN Raised(scan.raised, "scan", TRUE, files, 1)
        ELSE IF check_duplicates /\ scan.dup
        THEN Outcome(FALSE, S_dup_open \o scan.name \o S_dup_close, "duplicate", "scan",
                     NoExc, TRUE, files, 1, scan.name)
        ELSE WriteFile(url, content,
                       GetFilenameFromUrl(url, response.content_type, url_hash),
                       directory, fault, files)

DownloadImage(url, directory, check_duplicates, response, fault, listing, url_hash, exists, files) ==
    IF fault.kind = "makedirs"
    THEN Raised(Exc("OSError", E_denied_open \o directory \o E_denied_close),
                "makedirs", exists, files, 0)
    ELSE IF RequestsGet(url, fault) # NoExc
    THEN Raised(RequestsGet(url, fault), "get", TRUE, files, 1)
    ELSE IF RaiseForStatus(response) # NoExc
    THEN Raised(RaiseForStatus(response), "status", TRUE, files, 1)
    ELSE IF ValidateImageHeaders(response).raised # NoExc
    THEN Raised(ValidateImageHeaders(response).raised, "validate", TRUE, files, 1)
    ELSE IF ~ValidateImageHeaders(response).valid
    THEN Outcome(FALSE, S_validation \o ValidateImageHeaders(response).msg, "validation",
                 "validate", NoExc, TRUE, files, 1, None)
    ELSE IF ReadContent(fault) # NoExc
    THEN Raised(ReadContent(fault), "content", TRUE, files, 1)
    ELSE CheckAndSave(url, directory, check_duplicates, response, fault, listing,
                      url_hash, files)

(***************************************************************************)
(* The inputs drawn: URLs, entry names, header values.                     *)
(***************************************************************************)
\* http://x/a.png
U_a ==
    <<"h", "t", "t", "p", ":", "/", "/", "x", "/", "a", ".", "p", "n", "g">>

\* http://y/a.png
U_b ==
    <<"h", "t", "t", "p", ":", "/", "/", "y", "/", "a", ".", "p", "n", "g">>

\* http://x/c.png
U_c ==
    <<"h", "t", "t", "p", ":", "/", "/", "x", "/", "c", ".", "p", "n", "g">>

\* http://x/
U_gen ==
    <<"h", "t", "t", "p", ":", "/", "/", "x", "/">>

\* x/duplicate.png
U_noscheme ==
    <<"x", "/", "d", "u", "p", "l", "i", "c", "a", "t", "e", ".", "p", "n", "g">>

\* http://x/pic?f=a.png
U_query ==
    <<"h", "t", "t", "p", ":", "/", "/", "x", "/", "p", "i", "c", "?", "f", "=", "a", ".", "p",
    "n", "g">>

\* http://y/d.v/e.gif;v=1.2#z.bmp
U_params ==
    <<"h", "t", "t", "p", ":", "/", "/", "y", "/", "d", ".", "v", "/", "e", ".", "g", "i", "f",
    ";", "v", "=", "1", ".", "2", "#", "z", ".", "b", "m", "p">>

\* http://xy
U_bare ==
    <<"h", "t", "t", "p", ":", "/", "/", "x", "y">>

\* a.png
N_a ==
    <<"a", ".", "p", "n", "g">>

\* c.png
N_c ==
    <<"c", ".", "p", "n", "g">>

\* old.png
N_old ==
    <<"o", "l", "d", ".", "p", "n", "g">>

\* sub
N_sub ==
    <<"s", "u", "b">>

\* text/html
S_text_html ==
    <<"t", "e", "x", "t", "/", "h", "t", "m", "l">>

\* IMAGE/PNG
S_image_png_upper ==
    <<"I", "M", "A", "G", "E", "/", "P", "N", "G">>

\* image/x-icon
S_image_icon ==
    <<"i", "m", "a", "g", "e", "/", "x", "-", "i", "c", "o", "n">>

\* image/png; q=1
S_image_png_param ==
    <<"i", "m", "a", "g", "e", "/", "p", "n", "g", ";", " ", "q", "=", "1">>

\* OK
S_reason_ok ==
    <<"O", "K">>

\* Not Modified
S_reason_not_modified ==
    <<"N", "o", "t", " ", "M", "o", "d", "i", "f", "i", "e", "d">>

\* Not Found
S_reason_not_found ==
    <<"N", "o", "t", " ", "F", "o", "u", "n", "d">>

\* 0
L_zero ==
    <<"0">>

\* 2
L_small ==
    <<"2">>

\* 52428800
L_limit ==
    <<"5", "2", "4", "2", "8", "8", "0", "0">>

\* 52428801
L_over ==
    <<"5", "2", "4", "2", "8", "8", "0", "1">>

\* -1
L_negative ==
    <<"-", "1">>

\* abc
L_word ==
    <<"a", "b", "c">>

\* http://x/e.png
U_len ==
    <<"h", "t", "t", "p", ":", "/", "/", "x", "/", "e", ".", "p", "n", "g">>

\* A Content-Length of 1 followed by 400 zeros.
L_huge == <<"1">> \o [k \in 1..400 |-> "0"]

Response(status, reason, content_type, content_length, body) ==
    [status |-> status, reason |-> reason, content_type |-> content_type,
     content_length |-> content_length, body |-> body]

\* The longest body drawn, in bytes.
MaxBody == 2

\* The most URLs typed at the prompt.
MaxUrls == 2

\* The most calls of one run in which something goes wrong.
MaxFaults == 1

RECURSIVE BytesUpTo(_)
BytesUpTo(n) ==
    IF n = 0 THEN {<<>>}
    ELSE BytesUpTo(n - 1) \cup {b \o <<n>> : b \in BytesUpTo(n - 1)}

\* The bodies servers send: <<>>, <<1>>, <<2>>, <<1, 2>>, ...
Bodies == BytesUpTo(MaxBody)

\* What each URL of a batch serves (the same on every request): two hosts
\* with an a.png of their own, a c.png that is a copy of the first a.png, a
\* server that declares a length that is no number, and anything else is not
\* found.
Served(url) ==
    CASE url = U_a -> Response(200, S_reason_ok, S_image_png, L_small, <<1>>)
      [] url = U_b -> Response(200, S_reason_ok, S_image_png, None, <<1, 2>>)
      [] url = U_c -> Response(200, S_reason_ok, S_image_png_upper, None, <<1>>)
      [] url = U_len -> Response(200, S_reason_ok, S_image_png, L_word, <<2>>)
      [] OTHER -> Response(404, S_reason_not_found, S_text_html, None, <<>>)

\* U_noscheme is a URL typed without its scheme.
BatchUrls == {U_a, U_b, U_c, U_len, U_noscheme}

RECURSIVE SeqsUpTo(_, _)
SeqsUpTo(S, n) ==
    IF n = 0 THEN {<<>>}
    ELSE SeqsUpTo(S, n - 1)
            \cup {s \o <<e>> : s \in {t \in SeqsUpTo(S, n - 1) : Len(t) = n - 1}, e \in S}

NoFiles == [n \in {} |-> [isfile |-> TRUE, data |-> <<>>]]

File(data) == [isfile |-> TRUE, data |-> data]

Subdirectory == [isfile |-> FALSE, data |-> <<>>]

\* The target directory before the run: absent, or holding an image saved
\* earlier and a subdirectory.
FreshDirectory == [exists |-> FALSE, files |-> NoFiles]

UsedDirectory ==
    [exists |-> TRUE,
     files |-> [n \in {N_old, N_sub} |-> IF n = N_old THEN File(<<1>>) ELSE Subdirectory]]

\* ... or holding a directory where a.png is to go, and an empty file.
BlockedDirectory ==
    [exists |-> TRUE,
     files |-> [n \in {N_a, N_old} |-> IF n = N_a THEN Subdirectory ELSE File(<<>>)]]

\* hash(url) under the process's hash seed: any int.
PyHash(url, seed) == seed * Len(url)

HashSeeds == {-7, 10000}

\* The seed of the batch runs.
BatchSeed == CHOOSE s \in HashSeeds : s < 0

\* The orders os.listdir may return the entries in.
Listings(files) ==
    {p \in [1..Cardinality(DOMAIN files) -> DOMAIN files] :
        \A j, k \in 1..Cardinality(DOMAIN files) : j # k => p[j] # p[k]}

\* What can go wrong during one call.
Faults(files) ==
    {Fault(k, <<>>) : k \in {"none", "makedirs", "connect_timeout", "read_timeout",
                            "connection", "redirects", "body_timeout", "body_broken",
                            "open_denied"}}
        \cup {Fault("unreadable", n) : n \in DOMAIN files}
        \cup {Fault("no_space", k) : k \in 0..(MaxBody - 1)}

(***************************************************************************)
(* main: the driver.  urls is what the prompts collected.                  *)
(***************************************************************************)
VARIABLES
    pc,             \* where main is: "input", "loop", "done", "exit", "crashed"
    urls,           \* the URLs collected
    served,         \* served[k]: the response to the request for urls[k]
    seed,           \* the process's hash seed
    i,              \* the URLs processed so far
    success_count, skip_count, fail_count,
    exists, files,  \* the directory Fetched_Images
    calls,          \* calls[k]: the k-th call of download_image and its outcome
    faulty,         \* the calls so far in which something went wrong
    resolved        \* a call of get_filename_from_url alone: arguments and result

vars == <<pc, urls, served, seed, i, success_count, skip_count, fail_count,
          exists, files, calls, faulty, resolved>>

NotResolving == [at |-> "idle"]

Init ==
    /\ pc = "input"
    /\ urls \in SeqsUpTo(BatchUrls, MaxUrls)
    /\ served = [k \in 1..Len(urls) |-> Served(urls[k])]
    /\ seed = BatchSeed
    /\ i = 0
    /\ success_count = 0 /\ skip_count = 0 /\ fail_count = 0
    /\ \E d \in {FreshDirectory, UsedDirectory} : exists = d.exists /\ files = d.files
    /\ calls = <<>>
    /\ faulty = 0
    /\ resolved = NotResolving

\* if not urls: print("No URLs provided. Exiting gracefully."); return
NoUrls ==
    /\ pc = "input" /\ urls = <<>>
    /\ pc' = "exit"
    /\ UNCHANGED <<urls, served, seed, i, success_count, skip_count, fail_count,
                   exists, files, calls, faulty, resolved>>

\* success_count = 0; skip_count = 0; fail_count = 0; enter the loop
Begin ==
    /\ pc = "input" /\ urls # <<>>
    /\ pc' = "loop"
    /\ success_count' = 0 /\ skip_count' = 0 /\ fail_count' = 0
    /\ UNCHANGED <<urls, served, seed, i, exists, files, calls, faulty, resolved>>

\* elif "duplicate" in message.lower()
SaysDuplicate(message) == Contains(Lower(message), S_duplicate)

\* The tally after one outcome.
Tally(out, counts) ==
    IF out.ok THEN [counts EXCEPT !.success = @ + 1]
    ELSE IF SaysDuplicate(out.msg) THEN [counts EXCEPT !.skip = @ + 1]
    ELSE [counts EXCEPT !.fail = @ + 1]

\* The record kept of a call.
Call(url, response, fault, before_exists, before, out) ==
    [url |-> url, response |-> response, fault |-> fault,
     before_exists |-> before_exists, before |-> before, out |-> out]

\* One iteration of the for loop: download_image(url, check_duplicates=True),
\* then the tally.  An exception download_image lets through ends main.
ProcessUrl ==
    /\ pc = "loop" /\ i < Len(urls)
    /\ \E fault \in Faults(files), listing \in Listings(files) :
         /\ fault = NoFault \/ faulty < MaxFaults
         /\ faulty' = IF fault = NoFault THEN faulty ELSE faulty + 1
         /\ \E out \in {DownloadImage(urls[i + 1], S_default_dir, TRUE, served[i + 1],
                                      fault, listing, PyHash(urls[i + 1], seed),
                                      exists, files)} :
              /\ exists' = out.exists
              /\ files' = out.files
              /\ calls' = Append(calls, Call(urls[i + 1], served[i + 1], fault, exists, files,
                                              out))
              /\ IF out.via = "propagated"
                 THEN /\ pc' = "crashed"
                      /\ UNCHANGED <<i, success_count, skip_count, fail_count>>
                 ELSE /\ pc' = "loop"
                      /\ i' = i + 1
                      /\ \E counts \in {Tally(out, [success |-> success_count,
                                                    skip |-> skip_count,
                                                    fail |-> fail_count])} :
                            /\ success_count' = counts.success
                            /\ skip_count' = counts.skip
                            /\ fail_count' = counts.fail
    /\ UNCHANGED <<urls, served, seed, resolved>>

\* The summary after the loop.
Summary ==
    /\ pc = "loop" /\ i = Len(urls)
    /\ pc' = "done"
    /\ UNCHANGED <<urls, served, seed, i, success_count, skip_count, fail_count,
                   exists, files, calls, faulty, resolved>>

Next == NoUrls \/ Begin \/ ProcessUrl \/ Summary

\* A batch of URLs, each serving what Served gives.
Spec == Init /\ [][Next]_vars

(***************************************************************************)
(* One URL whose server may answer anything: every status, Content-Type,   *)
(* Content-Length and body drawn, into each of the directories.            *)
(***************************************************************************)
Statuses == {200, 304, 404}

ReasonOf(status) ==
    CASE status = 200 -> S_reason_ok
      [] status = 304 -> S_reason_not_modified
      [] OTHER -> S_reason_not_found

ContentTypes == {None, S_image_png, S_image_png_upper, S_image_png_param, S_text_html}

ContentLengths == {None, <<>>, L_zero, L_limit, L_over, L_negative, L_word, L_huge}

AnyResponse ==
    {Response(s, ReasonOf(s), t, l, b) :
        s \in Statuses, t \in ContentTypes, l \in ContentLengths, b \in Bodies}

InitSingle ==
    /\ pc = "input"
    /\ \/ urls \in {<<U_a>>, <<U_gen>>} /\ served \in {<<r>> : r \in AnyResponse}
       \/ urls = <<U_noscheme>> /\ served = <<Served(U_noscheme)>>
    /\ seed \in HashSeeds
    /\ i = 0
    /\ success_count = 0 /\ skip_count = 0 /\ fail_count = 0
    /\ \E d \in {FreshDirectory, UsedDirectory, BlockedDirectory} :
            exists = d.exists /\ files = d.files
    /\ calls = <<>>
    /\ faulty = 0
    /\ resolved = NotResolving

SpecSingle == InitSingle /\ [][Begin \/ ProcessUrl \/ Summary]_vars

(***************************************************************************)
(* get_filename_from_url on its own, for every URL, content type and hash  *)
(* drawn.                                                                  *)
(***************************************************************************)
ResolverUrls == {U_a, U_b, U_c, U_gen, U_noscheme, U_query, U_params, U_bare}

ResolverTypes ==
    {None, <<>>, S_image_jpeg, S_image_png, S_image_gif, S_image_webp, S_image_svg,
     S_image_bmp, S_image_png_upper, S_image_png_param, S_image_icon, S_text_html}

HashValues == {-10001, -1, 0, 9999, 10000, 123456}

InitResolver ==
    /\ pc = "resolver"
    /\ urls = <<>> /\ served = <<>> /\ seed = BatchSeed /\ i = 0
    /\ success_count = 0 /\ skip_count = 0 /\ fail_count = 0
    /\ exists = FALSE /\ files = NoFiles /\ calls = <<>> /\ faulty = 0
    /\ resolved \in {[at |-> "called", url |-> u, content_type |-> t, url_hash |-> h] :
                        u \in ResolverUrls, t \in ResolverTypes, h \in HashValues}

\* filename = get_filename_from_url(url, content_type)
Resolve ==
    /\ pc = "resolver" /\ resolved.at = "called"
    /\ resolved' = [at |-> "returned", url |-> resolved.url,
                    content_type |-> resolved.content_type,
                    url_hash |-> resolved.url_hash,
                    filename |-> GetFilenameFromUrl(resolved.url, resolved.content_type,
                                                    resolved.url_hash)]
    /\ UNCHANGED <<pc, urls, served, seed, i, success_count, skip_count, fail_count,
                   exists, files, calls, faulty>>

SpecResolver == InitResolver /\ [][Resolve]_vars

(***************************************************************************)
(* The properties.  Each speaks of the call just made, calls[Len(calls)]:  *)
(* every call is the last one in the state that follows it.                *)
(***************************************************************************)
Called == calls # <<>>

LastCall == calls[Len(calls)]

\* The names of the regular files of a directory that hold `data`.
Holding(directory_files, data) ==
    {n \in DOMAIN directory_files :
        directory_files[n].isfile /\ directory_files[n].data = data}

\* The call got a response: the directory was made, requests.get returned.
GotResponse(call) ==
    /\ call.fault.kind \notin
            {"makedirs", "connect_timeout", "read_timeout", "connection", "redirects"}
    /\ HasScheme(call.url)

\* The response is an error status, which raise_for_status refuses.
ErrorStatus(call) == call.response.status >= 400

\* The body arrived whole.
GotBody(call) == call.fault.kind \notin {"body_timeout", "body_broken"}

\* The Content-Type is absent or does not begin with image/, whatever its case.
NotAnImageType(content_type) ==
    content_type = None \/ ~StartsWith(Lower(content_type), S_image_prefix)

\* The Content-Length declared is a number within the limit, or none is declared.
WithinLimit(content_length) ==
    \/ content_length \in {None, <<>>}
    \/ /\ IntParses(content_length)
       /\ IntOf(content_length).neg \/ ~MagLess(L_limit, IntOf(content_length).mag)

\* The Content-Length declared is a number above 52,428,800.
OverLimit(content_length) ==
    /\ content_length \notin {None, <<>>}
    /\ IntParses(content_length)
    /\ ~IntOf(content_length).neg
    /\ MagLess(L_limit, IntOf(content_length).mag)

\* The headers are those of an image within the limit.
AcceptableHeaders(response) ==
    ~NotAnImageType(response.content_type) /\ WithinLimit(response.content_length)

\* The call reached the duplicate check with a body some regular file holds.
BodyAlreadyHeld(call) ==
    /\ GotResponse(call) /\ ~ErrorStatus(call) /\ GotBody(call)
    /\ AcceptableHeaders(call.response)
    /\ Holding(call.before, call.response.body) # {}

\* The call ended as a duplicate-skip naming a file that holds the body, and
\* left the directory as it was.
SkippedAsDuplicate(call) ==
    /\ call.out.via = "duplicate" /\ ~call.out.ok
    /\ call.out.filename \in Holding(call.before, call.response.body)
    /\ call.out.msg = S_dup_open \o call.out.filename \o S_dup_close
    /\ call.out.files = call.before

C2_SavedNamesAreNew ==
    (Called /\ LastCall.out.via = "saved") =>
        LastCall.out.filename \notin DOMAIN LastCall.before

\* C3: a response whose Content-Type is absent or does not begin with image/
\* (in any case) ends in a validation failure, whatever its body, also when a
\* file of the directory holds the same bytes, and the directory's files are
\* left as they were.  (The response is one raise_for_status lets through.)
C3_NonImageRejectedFirst ==
    (/\ Called
     /\ GotResponse(LastCall) /\ ~ErrorStatus(LastCall)
     /\ NotAnImageType(LastCall.response.content_type)) =>
        /\ LastCall.out.via = "validation"
        /\ ~LastCall.out.ok
        /\ StartsWith(LastCall.out.msg, S_validation)
        /\ LastCall.out.files = LastCall.before

\* C3's case: a text/html response whose body a file of the directory holds.
C3_Witness ==
    /\ Called
    /\ LastCall.response.content_type = S_text_html
    /\ Holding(LastCall.before, LastCall.response.body) # {}
    /\ LastCall.out.via = "validation"
    /\ LastCall.fault.kind = "none"

\* The call got a response with an image Content-Type that raise_for_status
\* lets through.
ImageResponse(call) ==
    /\ GotResponse(call) /\ ~ErrorStatus(call)
    /\ ~NotAnImageType(call.response.content_type)

\* The call ended in the validation failure for size, and wrote nothing.
RejectedForSize(call) ==
    /\ call.out.via = "validation" /\ ~call.out.ok
    /\ StartsWith(call.out.msg, S_validation \o S_size_open)
    /\ call.out.files = call.before

\* C4 as stated: an image response declaring more than 52,428,800 bytes ends
\* in a validation failure with no file written; one declaring that many or
\* fewer, or no length, is not rejected for its size.
C4_OversizeRejected ==
    (Called /\ ImageResponse(LastCall)) =>
        /\ OverLimit(LastCall.response.content_length) => RejectedForSize(LastCall)
        /\ WithinLimit(LastCall.response.content_length) =>
                LastCall.out.via # "validation"

\* The same for the declared lengths a float can hold after the division:
\* there C4 holds as stated.
C4_OversizeRejectedInFloatRange ==
    (/\ Called /\ ImageResponse(LastCall)
     /\ LastCall.response.content_length # L_huge) =>
        /\ OverLimit(LastCall.response.content_length) => RejectedForSize(LastCall)
        /\ WithinLimit(LastCall.response.content_length) =>
                LastCall.out.via # "validation"

(***************************************************************************)
(* C5.  What the claim expects of each URL drawn is written out here, not  *)
(* computed by the model of urlparse: the final segment of the URL's path. *)
(***************************************************************************)
FinalSegment(url) ==
    CASE url = U_a -> N_a
      [] url = U_b -> N_a
      [] url = U_c -> N_c
      [] url = U_noscheme -> <<"d", "u", "p", "l", "i", "c", "a", "t", "e", ".", "p", "n", "g">>
      [] url = U_query -> <<"p", "i", "c">>
      [] url = U_params -> <<"e", ".", "g", "i", "f">>
      [] OTHER -> <<>>

\* The extension the claim's table gives a content type (a MIME type, so read
\* without regard to case), .jpg when it is absent or not in the table.
TableExtension(content_type) ==
    IF content_type = None THEN S_jpg
    ELSE CASE Lower(content_type) = S_image_jpeg -> S_jpg
           [] Lower(content_type) = S_image_png -> S_png
           [] Lower(content_type) = S_image_gif -> S_gif
           [] Lower(content_type) = S_image_webp -> S_webp
           [] Lower(content_type) = S_image_svg -> S_svg
           [] Lower(content_type) = S_image_bmp -> S_bmp
           [] OTHER -> S_jpg

\* name is "downloaded_image_<n>" with 0 <= n < 10000 in decimal, then ext.
IsSynthesized(name, ext) ==
    LET number == SubSeq(name, Len(S_generated) + 1, Len(name) - Len(ext))
    IN  /\ StartsWith(name, S_generated)
        /\ Len(name) >= Len(S_generated) + Len(ext)
        /\ SubSeq(name, Len(name) - Len(ext) + 1, Len(name)) = ext
        /\ Len(number) \in 1..4
        /\ \A k \in 1..Len(number) : IsDigit(number[k])
        /\ Len(number) > 1 => number[1] # "0"

\* C5: a URL whose final path segment is not empty and holds a '.' resolves to
\* that segment; any other URL to downloaded_image_<n>, 0 <= n < 10000, with
\* the extension of the content type's table entry, .jpg when there is none.
C5_FilenameResolution ==
    resolved.at = "returned" =>
        IF FinalSegment(resolved.url) # <<>> /\ Contains(FinalSegment(resolved.url), S_dot)
        THEN resolved.filename = FinalSegment(resolved.url)
        ELSE IsSynthesized(resolved.filename, TableExtension(resolved.content_type))

\* C5's case: a URL without a final segment, a negative hash and an image/png
\* type give a synthesized .png name.
C5_Witness ==
    /\ resolved.at = "returned"
    /\ resolved.url = U_gen
    /\ resolved.url_hash < 0
    /\ resolved.content_type = S_image_png
    /\ IsSynthesized(resolved.filename, S_png)

\* C6: no error of a call leaves download_image: each is returned as (False,
\* message).  So main never ends on an exception, has called download_image
\* once for each URL processed, in the order typed, and reaches the summary
\* only after the last URL.
C6_ErrorsStayInsideCall ==
    /\ pc # "crashed"
    /\ Len(calls) = i
    /\ Called =>
        /\ LastCall.url = urls[Len(calls)]
        /\ LastCall.out.via # "propagated"
        /\ LastCall.out.exc # NoExc => ~LastCall.out.ok /\ LastCall.out.msg # <<>>
    /\ pc = "done" => i = Len(urls)

\* C6's case: the first URL times out and the second is still fetched and
\* saved, and the summary is reached.
C6_Witness ==
    /\ pc = "done"
    /\ Len(calls) = 2
    /\ calls[1].out.via = "Timeout"
    /\ calls[2].out.via = "saved"

\* The calls so far that ended by `via` in one of the ways given.
Ended(ways) == Cardinality({k \in 1..Len(calls) : calls[k].out.via \in ways})

\* C7 as stated: the counts add up to the URLs processed; success counts the
\* URLs saved, skip the URLs that ended in a duplicate-skip and no other, fail
\* the URLs that failed.
C7_TallyMatchesOutcomes ==
    /\ success_count + skip_count + fail_count = i
    /\ success_count = Ended({"saved"})
    /\ skip_count = Ended({"duplicate"})
    /\ fail_count = i - Ended({"saved", "duplicate"})

(***************************************************************************)
(* C8.  The batch in another order, with nothing going wrong, from the     *)
(* empty directory.                                                        *)
(***************************************************************************)
FreshRun == [exists |-> FALSE, files |-> NoFiles,
             counts |-> [success |-> 0, skip |-> 0, fail |-> 0]]

\* The run after one more URL.
RunAfter(run, out) ==
    [exists |-> out.exists, files |-> out.files, counts |-> Tally(out, run.counts)]

RECURSIVE RunInOrder(_, _, _)
RunInOrder(order, k, run) ==
    IF k > Len(order) THEN run
    ELSE RunInOrder(order, k + 1,
            RunAfter(run,
                DownloadImage(order[k], S_default_dir, TRUE, Served(order[k]), NoFault,
                              CHOOSE l \in Listings(run.files) : TRUE,
                              PyHash(order[k], seed), run.exists, run.files)))

\* The byte contents a directory stores.
Contents(directory_files) ==
    {directory_files[n].data :
        n \in {m \in DOMAIN directory_files : directory_files[m].isfile}}

\* What C8 compares: the tally and the contents stored at the end.
EndOf(run) == [counts |-> run.counts, contents |-> Contents(run.files)]

\* The orders a batch can be processed in.
Orders(s) ==
    {[k \in 1..Len(s) |-> s[p[k]]] :
        p \in {q \in [1..Len(s) -> 1..Len(s)] :
                \A j, k \in 1..Len(s) : j # k => q[j] # q[k]}}

\* C8 as stated: a batch run without faults into the empty directory ends
\* with the tally and the stored contents that every other order of the same
\* URLs ends with.
C8_OrderDoesNotMatter ==
    (pc = "done" /\ faulty = 0 /\ ~calls[1].before_exists) =>
        \A order \in Orders(urls) :
            EndOf(RunInOrder(order, 1, FreshRun))
                = [counts |-> [success |-> success_count, skip |-> skip_count,
                               fail |-> fail_count],
                   contents |-> Contents(files)]

\* C10 as stated: no two regular files of the directory hold the same bytes.
C10_NoTwoFilesAlike ==
    \A n, m \in DOMAIN files :
        (n # m /\ files[n].isfile /\ files[m].isfile) => files[n].data # files[m].data

(***************************************************************************)
(* C9.  The causes of a failure, read off what happened in the call.       *)
(***************************************************************************)
\* requests.get itself timed out: connecting, or reading the response's head.
RequestTimedOut(call) ==
    call.out.stage = "get" /\ call.out.exc.cls \in {"ConnectTimeout", "ReadTimeout"}

\* Reading the streamed body timed out.
BodyTimedOut(call) == call.out.stage = "content" /\ call.fault.kind = "body_timeout"

\* The server could not be reached.
Unreachable(call) == call.out.stage = "get" /\ call.out.exc.cls = "ConnectionError"

\* Another error of the requests library.
OtherRequestError(call) ==
    call.out.exc.cls \in {"TooManyRedirects", "MissingSchema", "ChunkedEncodingError"}

\* An error of the operating system: making the directory, reading an
\* existing file, opening or writing the file.
SystemError(call) == call.out.stage \in {"makedirs", "scan", "open", "write"}
                        /\ call.out.exc # NoExc

\* Writing the file failed.
WriteFailed(call) == call.out.stage \in {"open", "write"} /\ call.out.exc # NoExc

\* C9 as stated: a timeout of the request (connect or read) is reported as a
\* connection timeout, a non-2xx status as an HTTP error, an unreachable server
\* as a connection error, another requests error as a request error, a failed
\* write as a file error, only other causes as an unexpected error; and each
\* call issues exactly one GET.
C9_ClassifiedByCause ==
    Called =>
        /\ (RequestTimedOut(LastCall) \/ BodyTimedOut(LastCall)) =>
                LastCall.out.via = "Timeout"
        /\ (GotResponse(LastCall) /\ LastCall.response.status \notin 200..299) =>
                LastCall.out.via = "HTTPError"
        /\ Unreachable(LastCall) => LastCall.out.via = "ConnectionError"
        /\ OtherRequestError(LastCall) => LastCall.out.via = "RequestException"
        /\ WriteFailed(LastCall) => LastCall.out.via = "IOError"
        /\ LastCall.out.via = "Exception" =>
                LastCall.out.exc.cls \in {"ValueError", "OverflowError"}
        /\ LastCall.out.gets = 1

\* What holds instead of C9: failures are classified by the exception raised.  A timeout
\* raised by requests.get (connect, or read before the response is returned)
\* is reported as a connection timeout; a 4xx or 5xx status, and no other, as
\* an HTTP error; an unreachable server, and also a read timeout while the
\* body is streamed, as a connection error; another requests error as a
\* request error; an operating-system error (making the directory, reading an
\* existing file, opening or writing the file) as a file error; only other
\* causes as an unexpected error.  A call issues at most one GET: one, unless
\* making the directory failed, and none is retried.
C9_ClassifiedByException ==
    Called =>
        /\ RequestTimedOut(LastCall) =>
                LastCall.out.via = "Timeout" /\ LastCall.out.msg = S_timeout
        /\ BodyTimedOut(LastCall) =>
                LastCall.out.via = "ConnectionError" /\ LastCall.out.msg = S_connection
        /\ (GotResponse(LastCall) /\ LastCall.response.status \in 400..599) =>
                LastCall.out.via = "HTTPError" /\ StartsWith(LastCall.out.msg, S_http)
        /\ (GotResponse(LastCall) /\ LastCall.response.status \notin 400..599) =>
                LastCall.out.via # "HTTPError"
        /\ Unreachable(LastCall) =>
                LastCall.out.via = "ConnectionError" /\ LastCall.out.msg = S_connection
        /\ OtherRequestError(LastCall) =>
                LastCall.out.via = "RequestException"
                    /\ StartsWith(LastCall.out.msg, S_request)
        /\ SystemError(LastCall) =>
                LastCall.out.via = "IOError" /\ StartsWith(LastCall.out.msg, S_file)
        /\ LastCall.out.via = "Exception" =>
                /\ LastCall.out.exc.cls \in {"ValueError", "OverflowError"}
                /\ StartsWith(LastCall.out.msg, S_unexpected)
        /\ LastCall.out.exc # NoExc => ~LastCall.out.ok
        /\ LastCall.out.gets = IF LastCall.out.stage = "makedirs" THEN 0 ELSE 1

=============================================================================
